---- MODULE Spec2Model ----
(***************************************************************************)
(* Model of xcm/src/v0/multi_location.rs: the MultiLocation enum (a path   *)
(* of 0..4 junctions, one variant per length) and its operations.          *)
(*                                                                         *)
(* A MultiLocation value is a record [tag, f]: tag is the enum variant and *)
(* f the tuple of the variant's fields, outermost first.  Every operation  *)
(* is an operator written as the match of the source, one arm per variant. *)
(***************************************************************************)
EXTENDS Integers, Sequences, FiniteSets, TLC

\* Number of junction values other than Parent that the model draws from.
NumSteps == 2

\* Number of calls of next() made on one iterator.
MaxCalls == 7

\* Junction is opaque to this file except for Junction::Parent.
Parent == 0
Junction == 0..NumSteps

\* ---------------------------------------------------------------- values

Unit == <<>>
None == <<"None">>
Some(x) == <<"Some", x>>
Ok(x) == <<"Ok", x>>
Err(x) == <<"Err", x>>

Null == [tag |-> "Null", f |-> <<>>]
X1(a) == [tag |-> "X1", f |-> <<a>>]
X2(a, b) == [tag |-> "X2", f |-> <<a, b>>]
X3(a, b, c) == [tag |-> "X3", f |-> <<a, b, c>>]
X4(a, b, c, d) == [tag |-> "X4", f |-> <<a, b, c, d>>]

MultiLocation ==
    {Null}
    \cup {X1(a) : a \in Junction}
    \cup {X2(a, b) : a \in Junction, b \in Junction}
    \cup {X3(a, b, c) : a \in Junction, b \in Junction, c \in Junction}
    \cup {X4(a, b, c, d) : a \in Junction, b \in Junction, c \in Junction, d \in Junction}

\* ------------------------------------------------------------- accessors

first(s) ==
    CASE s.tag = "Null" -> None
      [] s.tag = "X1" -> Some(s.f[1])
      [] s.tag = "X2" -> Some(s.f[1])
      [] s.tag = "X3" -> Some(s.f[1])
      [] s.tag = "X4" -> Some(s.f[1])

last(s) ==
    CASE s.tag = "Null" -> None
      [] s.tag = "X1" -> Some(s.f[1])
      [] s.tag = "X2" -> Some(s.f[2])
      [] s.tag = "X3" -> Some(s.f[3])
      [] s.tag = "X4" -> Some(s.f[4])

len(s) ==
    CASE s.tag = "Null" -> 0
      [] s.tag = "X1" -> 1
      [] s.tag = "X2" -> 2
      [] s.tag = "X3" -> 3
      [] s.tag = "X4" -> 4

at(s, i) ==
    CASE i = 0 /\ s.tag = "X1" -> Some(s.f[1])
      [] i = 0 /\ s.tag = "X2" -> Some(s.f[1])
      [] i = 0 /\ s.tag = "X3" -> Some(s.f[1])
      [] i = 0 /\ s.tag = "X4" -> Some(s.f[1])
      [] i = 1 /\ s.tag = "X2" -> Some(s.f[2])
      [] i = 1 /\ s.tag = "X3" -> Some(s.f[2])
      [] i = 1 /\ s.tag = "X4" -> Some(s.f[2])
      [] i = 2 /\ s.tag = "X3" -> Some(s.f[3])
      [] i = 2 /\ s.tag = "X4" -> Some(s.f[3])
      [] i = 3 /\ s.tag = "X4" -> Some(s.f[4])
      [] OTHER -> None

\* --------------------------------------------------------- decomposition

\* split_first(self) -> (MultiLocation, Option<Junction>)
split_first(s) ==
    CASE s.tag = "Null" -> <<Null, None>>
      [] s.tag = "X1" -> <<Null, Some(s.f[1])>>
      [] s.tag = "X2" -> <<X1(s.f[2]), Some(s.f[1])>>
      [] s.tag = "X3" -> <<X2(s.f[2], s.f[3]), Some(s.f[1])>>
      [] s.tag = "X4" -> <<X3(s.f[2], s.f[3], s.f[4]), Some(s.f[1])>>

\* The remainder loses its outermost step instead of its innermost one.
split_last_outer(s) ==
    CASE s.tag = "Null" -> <<Null, None>>
      [] s.tag = "X1" -> <<Null, Some(s.f[1])>>
      [] s.tag = "X2" -> <<X1(s.f[2]), Some(s.f[2])>>
      [] s.tag = "X3" -> <<X2(s.f[2], s.f[3]), Some(s.f[3])>>
      [] s.tag = "X4" -> <<X3(s.f[2], s.f[3], s.f[4]), Some(s.f[4])>>

split_last(s) ==
    CASE s.tag = "Null" -> <<Null, None>>
      [] s.tag = "X1" -> <<Null, Some(s.f[1])>>
      [] s.tag = "X2" -> <<X1(s.f[1]), Some(s.f[2])>>
      [] s.tag = "X3" -> <<X2(s.f[1], s.f[2]), Some(s.f[3])>>
      [] s.tag = "X4" -> <<X3(s.f[1], s.f[2], s.f[3]), Some(s.f[4])>>

\* The &mut self operations return [self |-> the value left in *self,
\* ret |-> the value returned].  d is the local the source swaps *self into.
take_first(s) ==
    LET d == s
        r == split_first(d)
    IN  [self |-> r[1], ret |-> r[2]]

take_last(s) ==
    LET d == s
        r == split_last(d)
    IN  [self |-> r[1], ret |-> r[2]]

\* ---------------------------------------------------------------- growth

\* A push that appends without looking at the variant: the result of a full
\* path keeps the X4 discriminant and holds five steps.
pushed_with_unchecked(s, new) ==
    CASE s.tag = "Null" -> Ok(X1(new))
      [] s.tag = "X1" -> Ok(X2(s.f[1], new))
      [] s.tag = "X2" -> Ok(X3(s.f[1], s.f[2], new))
      [] OTHER -> Ok([tag |-> "X4", f |-> Append(s.f, new)])

\* A full path answered with the value the swap left behind, not the input.
pushed_with_loses(s, new) ==
    CASE s.tag = "Null" -> Ok(X1(new))
      [] s.tag = "X1" -> Ok(X2(s.f[1], new))
      [] s.tag = "X2" -> Ok(X3(s.f[1], s.f[2], new))
      [] s.tag = "X3" -> Ok(X4(s.f[1], s.f[2], s.f[3], new))
      [] OTHER -> Err(Null)

\* The new step written at the outermost end.
pushed_with_front(s, new) ==
    CASE s.tag = "Null" -> Ok(X1(new))
      [] s.tag = "X1" -> Ok(X2(new, s.f[1]))
      [] s.tag = "X2" -> Ok(X3(new, s.f[1], s.f[2]))
      [] s.tag = "X3" -> Ok(X4(new, s.f[1], s.f[2], s.f[3]))
      [] OTHER -> Err(s)

pushed_with(s, new) ==
    CASE s.tag = "Null" -> Ok(X1(new))
      [] s.tag = "X1" -> Ok(X2(s.f[1], new))
      [] s.tag = "X2" -> Ok(X3(s.f[1], s.f[2], new))
      [] s.tag = "X3" -> Ok(X4(s.f[1], s.f[2], s.f[3], new))
      [] OTHER -> Err(s)

\* The new step written at the innermost end.
pushed_front_with_back(s, new) ==
    CASE s.tag = "Null" -> Ok(X1(new))
      [] s.tag = "X1" -> Ok(X2(s.f[1], new))
      [] s.tag = "X2" -> Ok(X3(s.f[1], s.f[2], new))
      [] s.tag = "X3" -> Ok(X4(s.f[1], s.f[2], s.f[3], new))
      [] OTHER -> Err(s)

pushed_front_with(s, new) ==
    CASE s.tag = "Null" -> Ok(X1(new))
      [] s.tag = "X1" -> Ok(X2(new, s.f[1]))
      [] s.tag = "X2" -> Ok(X3(new, s.f[1], s.f[2]))
      [] s.tag = "X3" -> Ok(X4(new, s.f[1], s.f[2], s.f[3]))
      [] OTHER -> Err(s)

\* n is the local the source swaps *self into (leaving Null in *self).
push(s, new) ==
    LET n == s
        r == pushed_with(n, new)
    IN  IF r[1] = "Ok"
        THEN [self |-> r[2], ret |-> Ok(Unit)]
        ELSE [self |-> r[2], ret |-> Err(Unit)]

\* The Err arm returns without writing the old value back into *self.
push_front_norestore(s, new) ==
    LET n == s
        r == pushed_front_with(n, new)
    IN  IF r[1] = "Ok"
        THEN [self |-> r[2], ret |-> Ok(Unit)]
        ELSE [self |-> Null, ret |-> Err(Unit)]

push_front(s, new) ==
    LET n == s
        r == pushed_front_with(n, new)
    IN  IF r[1] = "Ok"
        THEN [self |-> r[2], ret |-> Ok(Unit)]
        ELSE [self |-> r[2], ret |-> Err(Unit)]

\* ------------------------------------------------------------- iterators

\* An iterator is [loc, idx]: the MultiLocation it owns or borrows and, for
\* the two borrowing iterators, its usize counter (kept 0 by the owning ones).
into_iter(s) == [loc |-> s, idx |-> 0]
into_iter_rev(s) == [loc |-> s, idx |-> 0]
iter(s) == [loc |-> s, idx |-> 0]
iter_rev(s) == [loc |-> s, idx |-> 0]

\* Each next returns [it |-> the iterator afterwards, ret |-> Option<Junction>].
\* MultiLocationIterator::next
next_into_iter(i) ==
    LET r == take_first(i.loc)
    IN  [it |-> [loc |-> r.self, idx |-> i.idx], ret |-> r.ret]

\* The reverse iterator taking from the outermost end.
next_into_iter_rev_forward(i) ==
    LET r == take_first(i.loc)
    IN  [it |-> [loc |-> r.self, idx |-> i.idx], ret |-> r.ret]

\* MultiLocationReverseIterator::next
next_into_iter_rev(i) ==
    LET r == take_last(i.loc)
    IN  [it |-> [loc |-> r.self, idx |-> i.idx], ret |-> r.ret]

\* The index taken modulo the length: the iterator starts over at the end.
next_iter_cycles(i) ==
    LET result == at(i.loc, IF len(i.loc) = 0 THEN i.idx ELSE i.idx % len(i.loc))
    IN  [it |-> [loc |-> i.loc, idx |-> i.idx + 1], ret |-> result]

\* MultiLocationRefIterator::next.  The counter is a usize; the runs here make
\* at most MaxCalls calls, far below the count at which `self.1 += 1` overflows.
next_iter(i) ==
    LET result == at(i.loc, i.idx)
    IN  [it |-> [loc |-> i.loc, idx |-> i.idx + 1], ret |-> result]

\* MultiLocationReverseRefIterator::next; checked_sub is None below zero.
next_iter_rev(i) ==
    LET c == i.idx + 1
    IN  [it |-> [loc |-> i.loc, idx |-> c],
         ret |-> IF len(i.loc) - c < 0 THEN None ELSE at(i.loc, len(i.loc) - c)]

\* ------------------------------------------------------------ composition

\* The for loop of appended_with over new.into_iter(); `?` returns the Err
\* of pushed_with, whose payload is the result accumulated so far.
RECURSIVE append_loop(_, _)
append_loop(result, i) ==
    LET n == next_into_iter(i)
    IN  IF n.ret = None
        THEN Ok(result)
        ELSE LET r == pushed_with(result, n.ret[2])
             IN  IF r[1] = "Err" THEN Err(r[2]) ELSE append_loop(r[2], n.it)

\* On overflow the original self is handed back instead of the partial result.
appended_with_rollback(s, new) ==
    LET r == append_loop(s, into_iter(new))
    IN  IF r[1] = "Err" THEN Err(s) ELSE r

appended_with(s, new) == append_loop(s, into_iter(new))

\* The match without its guard `if x != &Junction::Parent`.
cancel_cond_noguard(p, s) ==
    LET l == last(p)
        h == first(s)
    IN  l # None /\ h = Some(Parent)

\* The match that is the condition of prepend_with's while loop.
cancel_cond(p, s) ==
    LET l == last(p)
        h == first(s)
    IN  l # None /\ h = Some(Parent) /\ l[2] # Parent

\* ---------------------------------------------------------- state machine

VARIABLES
    self,     \* the MultiLocation the caller holds
    pc,       \* "idle", or the position inside prepend_with / an iteration
    ret,      \* the value the last call returned (Unit until it returns)
    prefix,   \* prepend_with: the local clone of the prefix
    it,       \* the live iterator
    op,       \* the operation called last
    pre,      \* observer: self when that operation was called
    arg,      \* observer: its argument
    prev,     \* observer: [op, pre, arg, ret] of the call before it
    k,        \* observer: iterations of prepend_with's cancellation loop so far
    pushed,   \* observer: the steps prepend_with passed to push_front, in call order
    failed,   \* observer: the results of those push_front calls
    yielded,  \* observer: the items next has returned as Some, in order
    calls     \* observer: the number of calls of next

vars == <<self, pc, ret, prefix, it, op, pre, arg, prev, k, pushed, failed, yielded, calls>>

NoPrev == [op |-> "none"]
NoIter == [loc |-> Null, idx |-> 0]

JunctionOps ==
    {"push", "push_front", "take_first", "take_last",
     "pushed_with", "pushed_front_with", "split_first", "split_last"}

\* Every MultiLocation can be built (the From impls), so a run starts from any.
Init ==
    /\ self \in MultiLocation
    /\ pc = "idle"
    /\ ret = Unit
    /\ prefix = Null
    /\ it = NoIter
    /\ op = "init"
    /\ pre = Null
    /\ arg = Unit
    /\ prev = NoPrev
    /\ k = 0
    /\ pushed = <<>>
    /\ failed = <<>>
    /\ yielded = <<>>
    /\ calls = 0

\* The observer's record of a call.  With rec the whole call is recorded (and
\* the record of the call before it kept as prev); without, only its name.
Called(rec, name, a) ==
    /\ pc = "idle"
    /\ op' = name
    /\ IF rec
       THEN /\ pre' = self
            /\ arg' = a
            /\ prev' = IF op = "init" THEN NoPrev
                       ELSE [op |-> op, pre |-> pre, arg |-> arg, ret |-> ret]
       ELSE UNCHANGED <<pre, arg, prev>>
    /\ UNCHANGED <<k, pushed, failed, yielded, calls>>

Push(rec, new) ==
    /\ Called(rec, "push", new)
    /\ self' = push(self, new).self
    /\ ret' = push(self, new).ret
    /\ UNCHANGED <<pc, prefix, it>>

PushFront(rec, new) ==
    /\ Called(rec, "push_front", new)
    /\ self' = push_front(self, new).self
    /\ ret' = push_front(self, new).ret
    /\ UNCHANGED <<pc, prefix, it>>

TakeFirst(rec) ==
    /\ Called(rec, "take_first", Unit)
    /\ self' = take_first(self).self
    /\ ret' = take_first(self).ret
    /\ UNCHANGED <<pc, prefix, it>>

TakeLast(rec) ==
    /\ Called(rec, "take_last", Unit)
    /\ self' = take_last(self).self
    /\ ret' = take_last(self).ret
    /\ UNCHANGED <<pc, prefix, it>>

\* The by-value operations consume self; the caller goes on with the
\* MultiLocation they return (the payload of Ok or Err, the remainder of a split).
PushedWith(rec, new) ==
    /\ Called(rec, "pushed_with", new)
    /\ ret' = pushed_with(self, new)
    /\ self' = pushed_with(self, new)[2]
    /\ UNCHANGED <<pc, prefix, it>>

PushedFrontWith(rec, new) ==
    /\ Called(rec, "pushed_front_with", new)
    /\ ret' = pushed_front_with(self, new)
    /\ self' = pushed_front_with(self, new)[2]
    /\ UNCHANGED <<pc, prefix, it>>

SplitFirst(rec) ==
    /\ Called(rec, "split_first", Unit)
    /\ ret' = split_first(self)
    /\ self' = split_first(self)[1]
    /\ UNCHANGED <<pc, prefix, it>>

SplitLast(rec) ==
    /\ Called(rec, "split_last", Unit)
    /\ ret' = split_last(self)
    /\ self' = split_last(self)[1]
    /\ UNCHANGED <<pc, prefix, it>>

AppendedWith(rec, new) ==
    /\ Called(rec, "appended_with", new)
    /\ ret' = appended_with(self, new)
    /\ self' = appended_with(self, new)[2]
    /\ UNCHANGED <<pc, prefix, it>>

\* prepend_with, one action per step of its body.
\* let mut prefix = prefix.clone();
PrependCall(rec, p) ==
    /\ pc = "idle"
    /\ pc' = "cancel"
    /\ prefix' = p
    /\ op' = "prepend_with"
    /\ ret' = Unit
    /\ IF rec
       THEN /\ pre' = self
            /\ arg' = p
       ELSE UNCHANGED <<pre, arg>>
    /\ UNCHANGED <<self, it, prev, k, pushed, failed, yielded, calls>>

\* One iteration of the while loop: the match arm that returns true.
PrependCancel(rec) ==
    /\ pc = "cancel"
    /\ cancel_cond(prefix, self)
    /\ prefix' = take_last(prefix).self
    /\ self' = take_first(self).self
    /\ k' = IF rec THEN k + 1 ELSE k
    /\ UNCHANGED <<pc, ret, it, op, pre, arg, prev, pushed, failed, yielded, calls>>

\* The match arm that returns false; prefix moves into into_iter_rev().
PrependCancelExit ==
    /\ pc = "cancel"
    /\ ~cancel_cond(prefix, self)
    /\ pc' = "splice"
    /\ it' = into_iter_rev(prefix)
    /\ prefix' = Null
    /\ UNCHANGED <<self, ret, op, pre, arg, prev, k, pushed, failed, yielded, calls>>

\* One iteration of the for loop: let _ = self.push_front(j);
PrependSplice(rec) ==
    /\ pc = "splice"
    /\ next_into_iter_rev(it).ret # None
    /\ LET j == next_into_iter_rev(it).ret[2]
       IN  /\ self' = push_front(self, j).self
           /\ pushed' = IF rec THEN Append(pushed, j) ELSE pushed
           /\ failed' = IF rec THEN Append(failed, push_front(self, j).ret) ELSE failed
    /\ it' = next_into_iter_rev(it).it
    /\ UNCHANGED <<pc, ret, prefix, op, pre, arg, prev, k, yielded, calls>>

\* The iterator is exhausted and prepend_with returns ().
PrependReturn ==
    /\ pc = "splice"
    /\ next_into_iter_rev(it).ret = None
    /\ pc' = "idle"
    /\ it' = NoIter
    /\ ret' = Unit
    /\ UNCHANGED <<self, prefix, op, pre, arg, prev, k, pushed, failed, yielded, calls>>

\* iter(), iter_rev(), into_iter() and into_iter_rev() on self.  The borrow
\* (or the move) keeps self from changing while the iterator lives.
StartIter(name) ==
    /\ pc = "idle"
    /\ pc' = "iterating"
    /\ op' = name
    /\ pre' = self
    /\ it' = CASE name = "into_iter" -> into_iter(self)
               [] name = "into_iter_rev" -> into_iter_rev(self)
               [] name = "iter" -> iter(self)
               [] name = "iter_rev" -> iter_rev(self)
    /\ UNCHANGED <<self, ret, prefix, arg, prev, k, pushed, failed, yielded, calls>>

\* One call of next on the live iterator.
IterNext ==
    /\ pc = "iterating"
    /\ calls < MaxCalls
    /\ LET n == CASE op = "into_iter" -> next_into_iter(it)
                  [] op = "into_iter_rev" -> next_into_iter_rev(it)
                  [] op = "iter" -> next_iter(it)
                  [] op = "iter_rev" -> next_iter_rev(it)
       IN  /\ it' = n.it
           /\ ret' = n.ret
           /\ yielded' = IF n.ret = None THEN yielded ELSE Append(yielded, n.ret[2])
    /\ calls' = calls + 1
    /\ UNCHANGED <<self, pc, prefix, op, pre, arg, prev, k, pushed, failed>>

\* The observed machine: one recorded call on any MultiLocation, which a
\* second junction-level call may follow; or one iteration.
Fresh == op = "init"
Second == op \in JunctionOps /\ prev = NoPrev

Next ==
    \/ (Fresh \/ Second) /\ \E new \in Junction : Push(TRUE, new)
    \/ (Fresh \/ Second) /\ \E new \in Junction : PushFront(TRUE, new)
    \/ (Fresh \/ Second) /\ TakeFirst(TRUE)
    \/ (Fresh \/ Second) /\ TakeLast(TRUE)
    \/ (Fresh \/ Second) /\ \E new \in Junction : PushedWith(TRUE, new)
    \/ (Fresh \/ Second) /\ \E new \in Junction : PushedFrontWith(TRUE, new)
    \/ (Fresh \/ Second) /\ SplitFirst(TRUE)
    \/ (Fresh \/ Second) /\ SplitLast(TRUE)
    \/ Fresh /\ \E new \in MultiLocation : AppendedWith(TRUE, new)
    \/ Fresh /\ \E p \in MultiLocation : PrependCall(TRUE, p)
    \/ PrependCancel(TRUE)
    \/ PrependCancelExit
    \/ PrependSplice(TRUE)
    \/ PrependReturn
    \/ Fresh /\ \E name \in {"into_iter", "into_iter_rev", "iter", "iter_rev"} : StartIter(name)
    \/ IterNext

Spec == Init /\ [][Next]_vars

\* The free-running machine: any sequence of the operations on the
\* MultiLocation the caller holds, nothing recorded.
NextSeq ==
    \/ \E new \in Junction : Push(FALSE, new)
    \/ \E new \in Junction : PushFront(FALSE, new)
    \/ TakeFirst(FALSE)
    \/ TakeLast(FALSE)
    \/ \E new \in Junction : PushedWith(FALSE, new)
    \/ \E new \in Junction : PushedFrontWith(FALSE, new)
    \/ SplitFirst(FALSE)
    \/ SplitLast(FALSE)
    \/ \E new \in MultiLocation : AppendedWith(FALSE, new)
    \/ \E p \in MultiLocation : PrependCall(FALSE, p)
    \/ PrependCancel(FALSE)
    \/ PrependCancelExit
    \/ PrependSplice(FALSE)
    \/ PrependReturn

SpecSeq == Init /\ [][NextSeq]_vars

\* ------------------------------------------------------------- properties

\* The steps a value holds come from its fields (f), never from the operations
\* under test; the expected results below are built from them as sequences.

\* From<[Junction; N]>: the MultiLocation of a sequence of at most 4 steps.
FromSeq(q) ==
    CASE Len(q) = 0 -> Null
      [] Len(q) = 1 -> X1(q[1])
      [] Len(q) = 2 -> X2(q[1], q[2])
      [] Len(q) = 3 -> X3(q[1], q[2], q[3])
      [] Len(q) = 4 -> X4(q[1], q[2], q[3], q[4])

Reverse(q) == [i \in 1..Len(q) |-> q[Len(q) + 1 - i]]

Min(a, b) == IF a < b THEN a ELSE b

\* The number of leading pairs (innermost step of p going inwards-out, outermost
\* step of s going outwards-in) in which p's step exists and is not Parent and
\* s's step exists and is Parent.
RECURSIVE CancelCount(_, _)
CancelCount(p, s) ==
    IF Len(p) > 0 /\ Len(s) > 0 /\ p[Len(p)] # Parent /\ s[1] = Parent
    THEN 1 + CancelCount(SubSeq(p, 1, Len(p) - 1), Tail(s))
    ELSE 0

\* prepend_with has returned, and this is the call the observer recorded.
Prepended == op = "prepend_with" /\ pc = "idle"

\* The prefix steps and the self steps that survive the cancellation loop.
RestPrefix == SubSeq(arg.f, 1, Len(arg.f) - k)
RestSelf == SubSeq(pre.f, k + 1, Len(pre.f))

\* C1: prepend_with composes in order.  With k the number of iterations of the
\* cancellation loop (k is the count the claim describes), whenever the
\* surviving prefix and self steps fit in 4, self ends as the first
\* prefix.len()-k steps of prefix followed by the last self.len()-k steps of
\* the original self, both in their original order.
C1_PrependComposes ==
    Prepended =>
        /\ k = CancelCount(arg.f, pre.f)
        /\ (len(arg) - k) + (len(pre) - k) <= 4 =>
               self = FromSeq(RestPrefix \o RestSelf)

C1_Witness ==
    /\ Prepended
    /\ k = 1
    /\ Len(RestPrefix) = 2
    /\ Len(RestSelf) = 2
    /\ RestPrefix[1] # RestPrefix[2]
    /\ self = FromSeq(RestPrefix \o RestSelf)

\* The cancellation loop has just ended and no step has been spliced yet, in a
\* call whose prefix ends in a step other than Parent and whose self starts
\* with Parent.
CollapseCase ==
    /\ op = "prepend_with"
    /\ pc = "splice"
    /\ pushed = <<>>
    /\ Len(arg.f) > 0
    /\ arg.f[Len(arg.f)] # Parent
    /\ Len(pre.f) > 0
    /\ pre.f[1] = Parent

\* C2 as stated: in the collapse case exactly one step is removed from each
\* side before splicing.
C2_CollapseRemovesExactlyOne ==
    CollapseCase =>
        /\ k = 1
        /\ it.loc = FromSeq(SubSeq(arg.f, 1, Len(arg.f) - 1))
        /\ self = FromSeq(Tail(pre.f))

\* The pair of steps that the first cancellation exposes cancels again.
SecondPairCancels ==
    /\ Len(arg.f) > 1
    /\ arg.f[Len(arg.f) - 1] # Parent
    /\ Len(pre.f) > 1
    /\ pre.f[2] = Parent

\* C2 amended: in the collapse case at least one step is removed from each
\* side before splicing: the k >= 1 innermost steps of prefix and the k
\* outermost steps of self, k the number of cancelling pairs; exactly one
\* unless the pair exposed by the first cancellation cancels again.  A prefix
\* [a, b] on a self [Parent, c], none of a, b, c being Parent, yields [a, c].
C2_CollapseRemovesPairs ==
    /\ CollapseCase =>
           /\ k >= 1
           /\ k = CancelCount(arg.f, pre.f)
           /\ (k = 1) <=> ~SecondPairCancels
           /\ it.loc = FromSeq(SubSeq(arg.f, 1, Len(arg.f) - k))
           /\ self = FromSeq(SubSeq(pre.f, k + 1, Len(pre.f)))
    /\ \A a, b, c \in Junction \ {Parent} :
           (Prepended /\ arg = X2(a, b) /\ pre = X2(Parent, c)) => self = X2(a, c)

C2_Witness ==
    /\ Prepended
    /\ arg = X2(1, 2)
    /\ pre = X2(Parent, 1)
    /\ k = 1
    /\ self = X2(1, 1)

C2_WitnessTwoPairs ==
    /\ CollapseCase
    /\ k = 2

\* The number of push_front calls of the splice phase that returned Ok.
RECURSIVE OkCount(_)
OkCount(q) ==
    IF q = <<>> THEN 0
    ELSE (IF q[1] = Ok(Unit) THEN 1 ELSE 0) + OkCount(Tail(q))

\* prepend_with has returned and the steps left after cancellation exceed 4.
Overflowed == Prepended /\ Len(RestPrefix) + Len(RestSelf) > 4

\* C3: prepend_with overflow policy.  When the steps left after cancellation
\* exceed 4, every push_front from the first failing one on fails and its step
\* is dropped; the result is the steps pushed before that (the innermost of the
\* remaining prefix) in prefix order, followed by all of self's
\* post-cancellation steps; its length is exactly 4, and the call returns ()
\* like any other.
C3_PrependOverflowTruncates ==
    Overflowed =>
        LET n == OkCount(failed)
            room == 4 - Len(RestSelf)
        IN  /\ Len(pushed) = Len(RestPrefix)
            /\ Len(failed) = Len(pushed)
            /\ n = room
            /\ \A i \in 1..Len(failed) : (failed[i] = Ok(Unit)) <=> (i <= n)
            /\ self = FromSeq(Reverse(SubSeq(pushed, 1, n)) \o RestSelf)
            /\ self = FromSeq(SubSeq(RestPrefix, Len(RestPrefix) - room + 1, Len(RestPrefix))
                              \o RestSelf)
            /\ len(self) = 4
            /\ ret = Unit

C3_Witness ==
    /\ Overflowed
    /\ k = 1
    /\ Len(RestSelf) = 2
    /\ Len(RestPrefix) = 3
    /\ failed = <<Ok(Unit), Ok(Unit), Err(Unit)>>
    /\ self = FromSeq(<<RestPrefix[2], RestPrefix[3]>> \o RestSelf)
    /\ RestPrefix[1] # RestPrefix[2]

\* C4: appended_with returns Ok(self's steps followed by other's steps) when
\* they are at most 4 together; otherwise Err carrying the partial result, the
\* first 4 steps of (self's steps followed by other's steps).
C4_AppendedWithPartial ==
    op = "appended_with" =>
        LET cat == pre.f \o arg.f
        IN  IF len(pre) + len(arg) <= 4
            THEN ret = Ok(FromSeq(cat))
            ELSE ret = Err(FromSeq(SubSeq(cat, 1, 4)))

C4_Witness ==
    /\ op = "appended_with"
    /\ len(pre) = 2
    /\ len(arg) = 3
    /\ ret[1] = "Err"
    /\ len(ret[2]) = 4
    /\ ret[2] # pre
    /\ ret[2].f = pre.f \o SubSeq(arg.f, 1, 2)

\* C5: growth on a full path loses nothing.  On a path of length 4,
\* pushed_with and pushed_front_with return Err carrying the input, and push
\* and push_front return Err(()) and leave self as it was.
C5_FullPathKept ==
    /\ (op \in {"pushed_with", "pushed_front_with"} /\ Len(pre.f) = 4) =>
           ret = Err(pre)
    /\ (op \in {"push", "push_front"} /\ Len(pre.f) = 4) =>
           (ret = Err(Unit) /\ self = pre)

C5_Witness ==
    /\ op = "push"
    /\ Len(pre.f) = 4
    /\ ret = Err(Unit)
    /\ self = pre
    /\ self # Null

\* C6: on a path of length < 4, push(s) returns Ok(()), and a take_last()
\* right after it returns Some(s) and leaves the path as it was before the push.
C6_PushThenTakeLast ==
    /\ (op = "push" /\ Len(pre.f) < 4) => ret = Ok(Unit)
    /\ (op = "take_last" /\ prev.op = "push" /\ Len(prev.pre.f) < 4) =>
           (ret = Some(prev.arg) /\ self = prev.pre)

C6_Witness ==
    /\ op = "take_last"
    /\ prev.op = "push"
    /\ Len(prev.pre.f) = 3
    /\ prev.ret = Ok(Unit)
    /\ ret = Some(prev.arg)
    /\ prev.arg # prev.pre.f[1]
    /\ self = prev.pre

\* C7: split_first of a non-empty path p returns (rest, Some(s)), rest one
\* step shorter than p, and rest.push_front(s) returns Ok(()) and yields p.
C7_SplitFirstThenPushFront ==
    /\ (op = "split_first" /\ Len(pre.f) > 0) =>
           /\ ret[2] = Some(pre.f[1])
           /\ Len(ret[1].f) = Len(pre.f) - 1
           /\ len(ret[1]) = len(pre) - 1
    /\ (op = "push_front" /\ prev.op = "split_first" /\ Len(prev.pre.f) > 0) =>
           (arg = prev.ret[2][2] => (pre = prev.ret[1] /\ ret = Ok(Unit) /\ self = prev.pre))

C7_Witness ==
    /\ op = "push_front"
    /\ prev.op = "split_first"
    /\ Len(prev.pre.f) = 4
    /\ prev.pre.f[1] # prev.pre.f[4]
    /\ arg = prev.ret[2][2]
    /\ ret = Ok(Unit)
    /\ self = prev.pre

\* The steps an iteration over pre has to yield, in order.
Expected ==
    IF op \in {"into_iter", "iter"} THEN pre.f ELSE Reverse(pre.f)

Valid(p) ==
    /\ p.tag \in {"Null", "X1", "X2", "X3", "X4"}
    /\ Len(p.f) <= 4
    /\ len(p) = Len(p.f)
    /\ \A i \in 1..Len(p.f) : p.f[i] \in Junction

\* The MultiLocation values in the last return value.
Returned ==
    CASE op \in {"pushed_with", "pushed_front_with", "appended_with"} -> {ret[2]}
      [] op \in {"split_first", "split_last"} -> {ret[1]}
      [] OTHER -> {}

\* C9: bounded length.  From any path of length 0..4, through any sequence of
\* push, push_front, take_first, take_last, pushed_with, pushed_front_with,
\* split_first, split_last, appended_with and prepend_with, every path held
\* (self, prepend_with's prefix and iterator) or returned (Ok and Err payloads,
\* split remainders) has length 0..4 and len() equal to the steps it holds.
C9_BoundedLength ==
    /\ Valid(self)
    /\ Valid(prefix)
    /\ Valid(it.loc)
    /\ \A p \in Returned : Valid(p)

C9_Witness ==
    /\ op = "appended_with"
    /\ ret[1] = "Err"
    /\ Len(ret[2].f) = 4
    /\ self = ret[2]

\* C10 as stated: the splice pushes the remaining prefix steps outermost-first.
C10_SpliceOutermostFirst ==
    Prepended => pushed = RestPrefix

\* C10 amended: in the splice phase the steps of the (possibly shortened)
\* prefix are passed to push_front innermost-first: the innermost remaining
\* step first and the step at index 0 last.
C10_SpliceInnermostFirst ==
    /\ (op = "prepend_with" /\ pc = "splice") =>
           pushed = SubSeq(Reverse(RestPrefix), 1, Len(pushed))
    /\ Prepended => pushed = Reverse(RestPrefix)

C10_Witness ==
    /\ Prepended
    /\ Len(pushed) = 3
    /\ pushed[1] # pushed[3]
    /\ pushed[1] = arg.f[Len(arg.f) - k]
    /\ pushed[3] = arg.f[1]

====
